---- MODULE Spec2Model ----
(***************************************************************************)
(* A model of the chained hash table of src/hashmap.c: construction        *)
(* (hashmap_new), lookup (hashmap_get) and insert-or-update (hashmap_set)  *)
(* over a caller-supplied allocator that may fail on any call.             *)
(*                                                                         *)
(* Memory is modelled explicitly.  Heap blocks are the addresses in Addr;  *)
(* the allocator hands out the lowest free address.  Chain nodes live in   *)
(* `nodes` (address -> struct bucket_node), the current bucket array in    *)
(* `buckets` (index -> head pointer), key bytes in `mem` (address of a     *)
(* caller variable or of a table-owned copy -> bytes).                     *)
(***************************************************************************)
EXTENDS Integers, Sequences, FiniteSets, TLC

\* ------------------------------------------------------------------ bounds

\* the caller makes no set call that would leave more nodes than this
MaxElements == 3

\* ------------------------------------------------------- program constants

NULL == 0

\* ----------------------------------------------------------- input domains

\* the bytes of a key (element_size bytes, read as a number)
Keys == {0, 1}

\* addresses of the caller's own key variables
CallerPtrs == {101, 102}
\* an address outside the heap and the caller's variables, for lookups by value
Probe == CHOOSE p \in {100} : TRUE

\* heap addresses: enough for the table record, the sizes copy, the old and
\* the new bucket array of a resize, and a node and a key copy for each
\* element and for the one a set call is adding
Addr == 1 .. (2 * MaxElements + 7)

\* how many allocator calls of one operation succeed before one fails
\* (no operation makes more than three)
AllocBudgets == 0 .. 3

\* load factors are exact binary fractions num/den, so that the double
\* product sizes[i] * load_factor is exact
SizesChoices == {<<1, 2, 4>>, <<2, 3, 4>>}
LoadFactors == {[num |-> 1, den |-> 2], [num |-> 3, den |-> 4]}
\* hash functions: one that spreads the keys, one under which all collide
HashFns == {[k \in Keys |-> k], [k \in Keys |-> 5]}

\* free_key is TRUE for a destructor function, FALSE for a NULL pointer
Configs ==
  [sizes : SizesChoices, load_factor : LoadFactors,
   copy_elements : BOOLEAN, get_hash : HashFns, free_key : {TRUE}]

\* the configurations that pass no destructor
NoDestructorConfigs ==
  [sizes : SizesChoices, load_factor : LoadFactors,
   copy_elements : BOOLEAN, get_hash : HashFns, free_key : {FALSE}]

\* what a call through a NULL function pointer may do: fault, or come back
\* having done nothing
UBOutcomes == {"fault", "return"}

\* ------------------------------------------------------------------- state

VARIABLES
  config,             \* the struct hashmap_config handed to hashmap_new
  hashmap,            \* the HashMap * the caller holds (NULL: none)
  sizes_addr,         \* hashmap->sizes (the address of the copy)
  sizes,              \* the contents of hashmap->sizes
  num_sizes,          \* hashmap->num_sizes
  cur_size,           \* hashmap->cur_size
  num_elements,       \* hashmap->num_elements
  num_elements_grow,  \* hashmap->num_elements_grow
  load_factor,        \* hashmap->load_factor
  copy_elements,      \* hashmap->copy_elements
  get_hash,           \* hashmap->get_hash
  free_key_fn,        \* hashmap->free_key (FALSE: NULL)
  bucket_array,       \* hashmap->bucket_array (the address of the array)
  buckets,            \* the contents of the current bucket array
  nodes,              \* the struct bucket_node at each node address
  mem,                \* key bytes at each key address
  live,               \* blocks handed out by alloc and not yet freed
  double_free,        \* free was called on a block that is not live
  last_op,            \* the operation that ran last
  last_key,           \* its key argument
  ret,                \* its int result (set)
  got,                \* its pointer result (get)
  alloc_failed,       \* one of its allocator calls returned NULL
  alloc_calls,        \* how many allocator calls it made
  resized,            \* it installed a new bucket array
  free_key_arg,       \* the key it handed to free_key (NULL: none)
  free_key_calls,     \* how many times it called free_key
  fault,              \* the process faulted in a call through NULL
  set_keys,           \* key bytes for which some set has returned 0
  set_ptrs,           \* pointers passed to a set that returned 0
  copied,             \* bytes each live table-owned key copy was made from
  dups                \* for each node a set appended although its chain held
                      \* an equal key: the node that held it, and the key
                      \* handle the set stored

table_vars ==
  <<hashmap, sizes_addr, sizes, num_sizes, cur_size, num_elements,
    num_elements_grow, load_factor, copy_elements, get_hash, free_key_fn,
    bucket_array, buckets, nodes>>
heap_vars == <<live, double_free>>
obs_vars ==
  <<last_op, last_key, ret, got, alloc_failed, alloc_calls, resized,
    free_key_arg, free_key_calls>>
hist_vars == <<set_keys, set_ptrs, copied, dups>>
vars == <<config, table_vars, heap_vars, mem, obs_vars, hist_vars, fault>>

\* the machine state an operation works on, with the per-call scratch values:
\* budget (allocator calls that will still succeed), failed, ptr / arr / ret
\* (the value the callee just returned), resized, free_key_arg,
\* free_key_calls, ub (what a call through NULL will do) and fault
Cur(b) ==
  [hashmap |-> hashmap, sizes_addr |-> sizes_addr, sizes |-> sizes,
   num_sizes |-> num_sizes, cur_size |-> cur_size,
   num_elements |-> num_elements, num_elements_grow |-> num_elements_grow,
   load_factor |-> load_factor, copy_elements |-> copy_elements,
   get_hash |-> get_hash, free_key_fn |-> free_key_fn,
   bucket_array |-> bucket_array, buckets |-> buckets,
   nodes |-> nodes, mem |-> mem, live |-> live, double_free |-> double_free,
   budget |-> b, failed |-> FALSE, ptr |-> NULL, arr |-> <<>>, ret |-> 0,
   resized |-> FALSE, free_key_arg |-> NULL, free_key_calls |-> 0,
   ub |-> "return", fault |-> FALSE]

Commit(r) ==
  /\ hashmap' = r.hashmap
  /\ sizes_addr' = r.sizes_addr
  /\ sizes' = r.sizes
  /\ num_sizes' = r.num_sizes
  /\ cur_size' = r.cur_size
  /\ num_elements' = r.num_elements
  /\ num_elements_grow' = r.num_elements_grow
  /\ load_factor' = r.load_factor
  /\ copy_elements' = r.copy_elements
  /\ get_hash' = r.get_hash
  /\ free_key_fn' = r.free_key_fn
  /\ bucket_array' = r.bucket_array
  /\ buckets' = r.buckets
  /\ nodes' = r.nodes
  /\ mem' = r.mem
  /\ live' = r.live
  /\ double_free' = r.double_free

\* ------------------------------------------------------ allocator, callbacks

\* allocator.alloc: NULL once the budget is used up, else the lowest free block
alloc(h) ==
  IF h.budget = 0
  THEN [h EXCEPT !.ptr = NULL, !.failed = TRUE]
  ELSE LET a == CHOOSE x \in Addr \ h.live : \A y \in Addr \ h.live : x <= y
       IN [h EXCEPT !.ptr = a, !.live = @ \cup {a}, !.budget = @ - 1]

\* allocator.free: the block stops being live and its contents are gone
free(h, p) ==
  IF p \in h.live
  THEN [h EXCEPT !.live = @ \ {p},
                 !.mem = [a \in DOMAIN h.mem \ {p} |-> h.mem[a]]]
  ELSE [h EXCEPT !.double_free = TRUE]

\* the caller's compare callback: 0 iff the two keys' bytes are equal
compare(h, a, b) == IF h.mem[a] = h.mem[b] THEN 0 ELSE 1

\* the caller's get_hash callback: a function of the key's bytes
hash_of(h, key) == h.get_hash[h.mem[key]]

\* the call hashmap->free_key(key): the model records the key the caller's
\* callback was given; through a NULL pointer the call is undefined
free_key(h, key) ==
  IF h.free_key_fn
  THEN [h EXCEPT !.free_key_arg = key, !.free_key_calls = @ + 1]
  ELSE IF h.ub = "fault" THEN [h EXCEPT !.fault = TRUE] ELSE h

\* the double product size * load_factor converted to size_t
grow_threshold(size, lf) == (size * lf.num) \div lf.den

\* sizes[i] of the C array
size_at(h, i) == h.sizes[i + 1]

\* ------------------------------------------------------------ construction

\* hashmap_allocate_bucket_array: ptr is the new array (NULL on failure) and
\* arr its contents, every slot NULL
hashmap_allocate_bucket_array(h, num_buckets) ==
  LET a == alloc(h)
  IN IF a.ptr = NULL
     THEN a
     ELSE [a EXCEPT !.arr = [i \in 0 .. num_buckets - 1 |-> NULL]]

\* hashmap_new with a slip: when the bucket array cannot be allocated, only
\* the table record is released and the sizes copy is left behind
hashmap_new_leak_sizes(h, cfg) ==
  LET a1 == alloc(h)
  IN IF a1.ptr = NULL
     THEN a1
     ELSE
       LET a2 == alloc(a1)
       IN IF a2.ptr = NULL
          THEN [free(a2, a1.ptr) EXCEPT !.ptr = NULL]
          ELSE
            LET s == [a2 EXCEPT !.get_hash = cfg.get_hash,
                                !.free_key_fn = cfg.free_key,
                                !.sizes_addr = a2.ptr,
                                !.sizes = cfg.sizes,
                                !.num_sizes = Len(cfg.sizes),
                                !.load_factor = cfg.load_factor,
                                !.cur_size = 0,
                                !.num_elements_grow =
                                   grow_threshold(cfg.sizes[1], cfg.load_factor)]
                a3 == hashmap_allocate_bucket_array(s, size_at(s, s.cur_size))
            IN IF a3.ptr = NULL
               THEN [free(a3, a1.ptr) EXCEPT !.ptr = NULL]
               ELSE [a3 EXCEPT !.bucket_array = a3.ptr,
                               !.buckets = a3.arr,
                               !.num_elements = 0,
                               !.copy_elements = cfg.copy_elements,
                               !.hashmap = a1.ptr,
                               !.ptr = a1.ptr]

\* hashmap_new: ptr is the new table, or NULL with everything released
hashmap_new(h, cfg) ==
  LET a1 == alloc(h)
  IN IF a1.ptr = NULL
     THEN a1
     ELSE
       LET a2 == alloc(a1)
       IN IF a2.ptr = NULL
          THEN [free(a2, a1.ptr) EXCEPT !.ptr = NULL]
          ELSE
            LET s == [a2 EXCEPT !.get_hash = cfg.get_hash,
                                !.free_key_fn = cfg.free_key,
                                !.sizes_addr = a2.ptr,
                                !.sizes = cfg.sizes,
                                !.num_sizes = Len(cfg.sizes),
                                !.load_factor = cfg.load_factor,
                                !.cur_size = 0,
                                !.num_elements_grow =
                                   grow_threshold(cfg.sizes[1], cfg.load_factor)]
                a3 == hashmap_allocate_bucket_array(s, size_at(s, s.cur_size))
            IN IF a3.ptr = NULL
               THEN [free(free(a3, s.sizes_addr), a1.ptr) EXCEPT !.ptr = NULL]
               ELSE [a3 EXCEPT !.bucket_array = a3.ptr,
                               !.buckets = a3.arr,
                               !.num_elements = 0,
                               !.copy_elements = cfg.copy_elements,
                               !.hashmap = a1.ptr,
                               !.ptr = a1.ptr]

\* ------------------------------------------------------------------ insert

\* hashmap_bucket_node_create: ptr is the new node, or NULL
hashmap_bucket_node_create(h, key, hash) ==
  LET a == alloc(h)
  IN IF a.ptr = NULL
     THEN a
     ELSE [a EXCEPT !.nodes =
             [n \in DOMAIN a.nodes \cup {a.ptr} |->
                IF n = a.ptr THEN [key |-> key, next |-> NULL, hash |-> hash]
                ELSE a.nodes[n]]]

\* the walk of hashmap_add_key_to_bucket comparing no key at all
RECURSIVE add_key_walk_never_match(_, _, _)
add_key_walk_never_match(h, cur_node, key) ==
  IF cur_node # NULL /\ h.nodes[cur_node].next # NULL
  THEN add_key_walk_never_match(h, h.nodes[cur_node].next, key)
  ELSE [match |-> FALSE, cur_node |-> cur_node]

\* the walk of hashmap_add_key_to_bucket comparing the chain's last node too
RECURSIVE add_key_walk_check_tail(_, _, _)
add_key_walk_check_tail(h, cur_node, key) ==
  IF cur_node = NULL
  THEN [match |-> FALSE, cur_node |-> cur_node]
  ELSE IF compare(h, h.nodes[cur_node].key, key) = 0
       THEN [match |-> TRUE, cur_node |-> cur_node]
       ELSE IF h.nodes[cur_node].next = NULL
            THEN [match |-> FALSE, cur_node |-> cur_node]
            ELSE add_key_walk_check_tail(h, h.nodes[cur_node].next, key)

\* the while loop of hashmap_add_key_to_bucket: it stops at the first node
\* that has a successor and an equal key (match), or else at the chain's
\* last node (NULL for an empty chain)
RECURSIVE add_key_walk(_, _, _)
add_key_walk(h, cur_node, key) ==
  IF cur_node # NULL /\ h.nodes[cur_node].next # NULL
  THEN IF compare(h, h.nodes[cur_node].key, key) = 0
       THEN [match |-> TRUE, cur_node |-> cur_node]
       ELSE add_key_walk(h, h.nodes[cur_node].next, key)
  ELSE [match |-> FALSE, cur_node |-> cur_node]

\* hashmap_add_key_to_bucket with a slip: num_elements is incremented on an
\* in-place update too
hashmap_add_key_to_bucket_count_update(h, key, bucket, hash) ==
  LET w == add_key_walk(h, h.buckets[bucket], key)
  IN IF w.match
     THEN
       LET old == h.nodes[w.cur_node].key
           f == free_key(h, old)
           g == IF f.copy_elements THEN free(f, old) ELSE f
       IN [g EXCEPT !.nodes[w.cur_node].key = key,
                    !.num_elements = @ + 1, !.ret = 0]
     ELSE
       LET n == hashmap_bucket_node_create(h, key, hash)
       IN IF n.ptr = NULL
          THEN [n EXCEPT !.ret = -1]
          ELSE
            LET l == IF w.cur_node = NULL
                     THEN [n EXCEPT !.buckets[bucket] = n.ptr]
                     ELSE [n EXCEPT !.nodes[w.cur_node].next = n.ptr]
            IN [l EXCEPT !.num_elements = @ + 1, !.ret = 0]

\* hashmap_add_key_to_bucket: bucket is the index of the chain's head slot
hashmap_add_key_to_bucket(h, key, bucket, hash) ==
  LET w == add_key_walk(h, h.buckets[bucket], key)
  IN IF w.match
     THEN
       LET old == h.nodes[w.cur_node].key
           f == free_key(h, old)
           g == IF f.copy_elements THEN free(f, old) ELSE f
       IN [g EXCEPT !.nodes[w.cur_node].key = key, !.ret = 0]
     ELSE
       LET n == hashmap_bucket_node_create(h, key, hash)
       IN IF n.ptr = NULL
          THEN [n EXCEPT !.ret = -1]
          ELSE
            LET l == IF w.cur_node = NULL
                     THEN [n EXCEPT !.buckets[bucket] = n.ptr]
                     ELSE [n EXCEPT !.nodes[w.cur_node].next = n.ptr]
            IN [l EXCEPT !.num_elements = @ + 1, !.ret = 0]

\* hashmap_get_key_to_use with a slip: the caller's pointer is stored in
\* copy mode too
hashmap_get_key_to_use_no_copy(h, key) == [h EXCEPT !.ptr = key]

\* hashmap_get_key_to_use: ptr is the key to store (a fresh copy of the
\* caller's bytes, or the caller's pointer), or NULL
hashmap_get_key_to_use(h, key) ==
  IF h.copy_elements
  THEN LET a == alloc(h)
       IN IF a.ptr = NULL
          THEN a
          ELSE [a EXCEPT !.mem =
                  [x \in DOMAIN a.mem \cup {a.ptr} |->
                     IF x = a.ptr THEN a.mem[key] ELSE a.mem[x]]]
  ELSE [h EXCEPT !.ptr = key]

\* hashmap_add_key with a slip: the bucket index is taken modulo the first
\* size instead of the current one
hashmap_add_key_first_size(h, key) ==
  LET k == hashmap_get_key_to_use(h, key)
      key_to_use == k.ptr
  IN IF key_to_use = NULL
     THEN [k EXCEPT !.ret = -1]
     ELSE
       LET hash == hash_of(k, key_to_use)
           index == hash % size_at(k, 0)
           r == hashmap_add_key_to_bucket(k, key_to_use, index, hash)
       IN IF r.ret < 0
          THEN [(IF key # key_to_use THEN free(r, key_to_use) ELSE r)
                  EXCEPT !.ret = -1]
          ELSE [r EXCEPT !.ret = 0]

\* hashmap_add_key with a slip: the key copy is not released when the node
\* cannot be allocated
hashmap_add_key_leak_copy(h, key) ==
  LET k == hashmap_get_key_to_use(h, key)
      key_to_use == k.ptr
  IN IF key_to_use = NULL
     THEN [k EXCEPT !.ret = -1]
     ELSE
       LET hash == hash_of(k, key_to_use)
           index == hash % size_at(k, k.cur_size)
           r == hashmap_add_key_to_bucket(k, key_to_use, index, hash)
       IN IF r.ret < 0
          THEN [r EXCEPT !.ret = -1]
          ELSE [r EXCEPT !.ret = 0]

\* hashmap_add_key
hashmap_add_key(h, key) ==
  LET k == hashmap_get_key_to_use(h, key)
      key_to_use == k.ptr
  IN IF key_to_use = NULL
     THEN [k EXCEPT !.ret = -1]
     ELSE
       LET hash == hash_of(k, key_to_use)
           index == hash % size_at(k, k.cur_size)
           r == hashmap_add_key_to_bucket(k, key_to_use, index, hash)
       IN IF r.ret < 0
          THEN [(IF key # key_to_use THEN free(r, key_to_use) ELSE r)
                  EXCEPT !.ret = -1]
          ELSE [r EXCEPT !.ret = 0]

\* ------------------------------------------------------------------ resize

\* the last node of the chain that starts at cur_node
RECURSIVE chain_last(_, _)
chain_last(h, cur_node) ==
  IF h.nodes[cur_node].next # NULL
  THEN chain_last(h, h.nodes[cur_node].next)
  ELSE cur_node

\* hashmap_add_node_to_bucket linking the node in front of the chain
hashmap_add_node_to_bucket_prepend(h, bucket, node) ==
  [h EXCEPT !.nodes[node].next = h.buckets[bucket],
            !.buckets[bucket] = node]

\* hashmap_add_node_to_bucket: bucket is the index of the chain's head slot
hashmap_add_node_to_bucket(h, bucket, node) ==
  IF h.buckets[bucket] = NULL
  THEN [h EXCEPT !.buckets[bucket] = node]
  ELSE [h EXCEPT !.nodes[chain_last(h, h.buckets[bucket])].next = node]

\* the inner loop with a slip: the successor is read after the node's next
\* was cleared, so only the head of each old chain is re-linked
rehash_chain_lose_next(h, cur_node) ==
  IF cur_node = NULL
  THEN h
  ELSE
    LET d == [h EXCEPT !.nodes[cur_node].next = NULL]
        index == d.nodes[cur_node].hash % size_at(d, d.cur_size)
    IN hashmap_add_node_to_bucket(d, index, cur_node)

\* the inner loop with a slip: the index is taken modulo the old size
RECURSIVE rehash_chain_old_size(_, _)
rehash_chain_old_size(h, cur_node) ==
  IF cur_node = NULL
  THEN h
  ELSE
    LET next_node == h.nodes[cur_node].next
        d == [h EXCEPT !.nodes[cur_node].next = NULL]
        index == d.nodes[cur_node].hash % size_at(d, d.cur_size - 1)
    IN rehash_chain_old_size(hashmap_add_node_to_bucket(d, index, cur_node),
                             next_node)

\* the inner while loop of hashmap_rehash, from cur_node on
RECURSIVE rehash_chain(_, _)
rehash_chain(h, cur_node) ==
  IF cur_node = NULL
  THEN h
  ELSE
    LET next_node == h.nodes[cur_node].next
        d == [h EXCEPT !.nodes[cur_node].next = NULL]
        index == d.nodes[cur_node].hash % size_at(d, d.cur_size)
    IN rehash_chain(hashmap_add_node_to_bucket(d, index, cur_node), next_node)

\* the outer for loop of hashmap_rehash, from slot i on
RECURSIVE rehash_from(_, _, _, _)
rehash_from(h, old_array, i, size) ==
  IF i < size
  THEN rehash_from(rehash_chain(h, old_array[i]), old_array, i + 1, size)
  ELSE h

\* hashmap_rehash: bucket_array is the contents of the old array
hashmap_rehash(h, old_array, size) == rehash_from(h, old_array, 0, size)

\* hashmap_resize with a slip: cur_size is not advanced
hashmap_resize_no_advance(h) ==
  IF h.cur_size = h.num_sizes - 1
  THEN [h EXCEPT !.ret = 0]
  ELSE
    LET a == hashmap_allocate_bucket_array(h, size_at(h, h.cur_size + 1))
    IN IF a.ptr = NULL
       THEN [a EXCEPT !.ret = -1]
       ELSE
         LET s == [a EXCEPT !.bucket_array = a.ptr,
                            !.buckets = a.arr,
                            !.num_elements_grow =
                               grow_threshold(size_at(a, a.cur_size + 1),
                                              a.load_factor),
                            !.resized = TRUE]
             r == hashmap_rehash(s, h.buckets, size_at(s, s.cur_size))
         IN [free(r, h.bucket_array) EXCEPT !.ret = 0]

\* hashmap_resize with a slip: cur_size is advanced before the new array's
\* allocation is checked
hashmap_resize_early_advance(h) ==
  IF h.cur_size = h.num_sizes - 1
  THEN [h EXCEPT !.ret = 0]
  ELSE
    LET a == hashmap_allocate_bucket_array(h, size_at(h, h.cur_size + 1))
    IN IF a.ptr = NULL
       THEN [a EXCEPT !.cur_size = @ + 1, !.ret = -1]
       ELSE
         LET s == [a EXCEPT !.cur_size = @ + 1,
                            !.bucket_array = a.ptr,
                            !.buckets = a.arr,
                            !.num_elements_grow =
                               grow_threshold(size_at(a, a.cur_size + 1),
                                              a.load_factor),
                            !.resized = TRUE]
             r == hashmap_rehash(s, h.buckets, size_at(s, s.cur_size - 1))
         IN [free(r, h.bucket_array) EXCEPT !.ret = 0]

\* hashmap_resize that, at the last size, moves the chains into a fresh
\* array of the same size
hashmap_resize_regrow_at_last(h) ==
  LET last == h.cur_size = h.num_sizes - 1
      to == IF last THEN h.cur_size ELSE h.cur_size + 1
      a == hashmap_allocate_bucket_array(h, size_at(h, to))
  IN IF a.ptr = NULL
     THEN [a EXCEPT !.ret = -1]
     ELSE
       LET s == [a EXCEPT !.cur_size = to,
                          !.bucket_array = a.ptr,
                          !.buckets = a.arr,
                          !.num_elements_grow =
                             grow_threshold(size_at(a, to), a.load_factor),
                          !.resized = TRUE]
           r == hashmap_rehash(s, h.buckets, size_at(h, h.cur_size))
       IN [free(r, h.bucket_array) EXCEPT !.ret = 0]

\* hashmap_resize
hashmap_resize(h) ==
  IF h.cur_size = h.num_sizes - 1
  THEN [h EXCEPT !.ret = 0]
  ELSE
    LET a == hashmap_allocate_bucket_array(h, size_at(h, h.cur_size + 1))
    IN IF a.ptr = NULL
       THEN [a EXCEPT !.ret = -1]
       ELSE
         LET s == [a EXCEPT !.cur_size = @ + 1,
                            !.bucket_array = a.ptr,
                            !.buckets = a.arr,
                            !.num_elements_grow =
                               grow_threshold(size_at(a, a.cur_size + 1),
                                              a.load_factor),
                            !.resized = TRUE]
             r == hashmap_rehash(s, h.buckets, size_at(s, s.cur_size - 1))
         IN [free(r, h.bucket_array) EXCEPT !.ret = 0]

\* hashmap_set that grows only once the count has passed the threshold
hashmap_set_strict_greater(h, key) ==
  LET r == IF h.num_elements > h.num_elements_grow
           THEN hashmap_resize(h)
           ELSE [h EXCEPT !.ret = 0]
  IN IF r.ret < 0
     THEN [r EXCEPT !.ret = -1]
     ELSE hashmap_add_key(r, key)

\* hashmap_set
hashmap_set(h, key) ==
  LET r == IF h.num_elements = h.num_elements_grow
           THEN hashmap_resize(h)
           ELSE [h EXCEPT !.ret = 0]
  IN IF r.ret < 0
     THEN [r EXCEPT !.ret = -1]
     ELSE hashmap_add_key(r, key)

\* ------------------------------------------------------------------ lookup

\* hashmap_find_in_bucket: the first node of the chain whose key compares
\* equal, or NULL
RECURSIVE find_from(_, _, _)
find_from(h, cur_node, key) ==
  IF cur_node # NULL /\ compare(h, h.nodes[cur_node].key, key) # 0
  THEN find_from(h, h.nodes[cur_node].next, key)
  ELSE cur_node

\* a scan that returns the last node of the chain whose key compares equal
RECURSIVE find_last_from(_, _, _, _)
find_last_from(h, cur_node, key, found) ==
  IF cur_node = NULL
  THEN found
  ELSE find_last_from(h, h.nodes[cur_node].next, key,
                      IF compare(h, h.nodes[cur_node].key, key) = 0
                      THEN cur_node ELSE found)

hashmap_find_in_bucket_last(h, bucket, key) ==
  find_last_from(h, h.buckets[bucket], key, NULL)

hashmap_find_in_bucket(h, bucket, key) == find_from(h, h.buckets[bucket], key)

\* hashmap_get that first grows the table as hashmap_set does
hashmap_get_resizing(h, key) ==
  LET r == IF h.num_elements = h.num_elements_grow
           THEN hashmap_resize(h)
           ELSE h
      hash == hash_of(r, key)
      index == hash % size_at(r, r.cur_size)
      found == hashmap_find_in_bucket(r, index, key)
  IN [r EXCEPT !.ptr = IF found = NULL THEN NULL ELSE r.nodes[found].key]

\* hashmap_get: ptr is the stored key, or NULL
hashmap_get(h, key) ==
  LET hash == hash_of(h, key)
      index == hash % size_at(h, h.cur_size)
      found == hashmap_find_in_bucket(h, index, key)
  IN [h EXCEPT !.ptr = IF found = NULL THEN NULL ELSE h.nodes[found].key]

\* ----------------------------------------------------------------- actions

\* the keys the chain nodes hold
StoredKeys == {nodes[n].key : n \in DOMAIN nodes}

\* allocator calls made by an operation that started with budget b and
\* ended in r
Calls(b, r) == (b - r.budget) + (IF r.failed THEN 1 ELSE 0)

\* the state before hashmap_new, for a configuration of the set C and the
\* caller's key variables holding one of the memories of M
InitOf(C, M) ==
  /\ config \in C
  /\ hashmap = NULL
  /\ sizes_addr = NULL
  /\ sizes = <<>>
  /\ num_sizes = 0
  /\ cur_size = 0
  /\ num_elements = 0
  /\ num_elements_grow = 0
  /\ load_factor = config.load_factor
  /\ copy_elements = FALSE
  /\ get_hash = config.get_hash
  /\ free_key_fn = config.free_key
  /\ bucket_array = NULL
  /\ buckets = <<>>
  /\ nodes = <<>>
  /\ mem \in M
  /\ live = {}
  /\ double_free = FALSE
  /\ last_op = "none"
  /\ last_key = NULL
  /\ ret = 0
  /\ got = NULL
  /\ alloc_failed = FALSE
  /\ alloc_calls = 0
  /\ resized = FALSE
  /\ free_key_arg = NULL
  /\ free_key_calls = 0
  /\ fault = FALSE
  /\ set_keys = {}
  /\ set_ptrs = {}
  /\ copied = <<>>
  /\ dups = <<>>

Init == InitOf(Configs, {[p \in CallerPtrs |-> 0]})

\* the caller constructs the table; a failed construction leaves no table
\* record behind, only the heap it gave back
New ==
  /\ ~fault
  /\ hashmap = NULL
  /\ \E b \in AllocBudgets :
       LET r == hashmap_new(Cur(b), config)
       IN /\ IF r.ptr = NULL
             THEN /\ live' = r.live
                  /\ double_free' = r.double_free
                  /\ UNCHANGED <<table_vars, mem>>
             ELSE Commit(r)
          /\ last_op' = "new"
          /\ last_key' = NULL
          /\ ret' = IF r.ptr = NULL THEN -1 ELSE 0
          /\ got' = r.ptr
          /\ alloc_failed' = r.failed
          /\ alloc_calls' = Calls(b, r)
          /\ resized' = FALSE
          /\ free_key_arg' = NULL
          /\ free_key_calls' = 0
  /\ UNCHANGED <<config, hist_vars, fault>>

\* the node a set call that ended in r appended (NULL: none), and a node
\* that held a key equal to the call's key when it began (NULL: none)
appended_node(r) ==
  IF DOMAIN r.nodes = DOMAIN nodes THEN NULL
  ELSE CHOOSE n \in DOMAIN r.nodes : n \notin DOMAIN nodes

older_node(r, key) ==
  LET E == {m \in DOMAIN nodes : mem[nodes[m].key] = mem[key]}
  IN IF E = {} THEN NULL ELSE CHOOSE m \in E : TRUE

\* the caller calls hashmap_set with one of the key variables of P, the
\* allocator failing after one of the budgets of B, in a table that holds
\* at most max elements afterwards
SetCall(P, B, max) ==
  /\ ~fault
  /\ hashmap # NULL
  /\ \E key \in P, b \in B,
        u \in (IF free_key_fn THEN {"return"} ELSE UBOutcomes) :
       LET r == hashmap_set([Cur(b) EXCEPT !.ub = u], key)
           n == appended_node(r)
       IN /\ r.num_elements <= max
          /\ last_op' = "set"
          /\ last_key' = key
          /\ IF r.fault
             THEN /\ fault' = TRUE
                  /\ UNCHANGED <<table_vars, heap_vars, mem, hist_vars, ret,
                                 got, alloc_failed, alloc_calls, resized,
                                 free_key_arg, free_key_calls>>
             ELSE /\ fault' = FALSE
                  /\ Commit(r)
                  /\ ret' = r.ret
                  /\ got' = NULL
                  /\ alloc_failed' = r.failed
                  /\ alloc_calls' = Calls(b, r)
                  /\ resized' = r.resized
                  /\ free_key_arg' = r.free_key_arg
                  /\ free_key_calls' = r.free_key_calls
                  /\ set_keys' = IF r.ret = 0 THEN set_keys \cup {mem[key]}
                                 ELSE set_keys
                  /\ set_ptrs' = IF r.ret = 0 /\ ~copy_elements
                                 THEN set_ptrs \cup {key} ELSE set_ptrs
                  /\ copied' = [a \in DOMAIN r.mem \cap Addr |->
                                  IF a \in DOMAIN copied THEN copied[a]
                                  ELSE mem[key]]
                  /\ dups' = IF n # NULL /\ older_node(r, key) # NULL
                             THEN (n :> [older |-> older_node(r, key),
                                         handle |-> r.nodes[n].key]) @@ dups
                             ELSE dups
  /\ UNCHANGED config

Set == SetCall(CallerPtrs, AllocBudgets, MaxElements)

\* the caller calls hashmap_get with one of the key variables of P
GetCall(P) ==
  /\ ~fault
  /\ hashmap # NULL
  /\ \E key \in P :
       LET r == hashmap_get(Cur(0), key)
       IN /\ Commit(r)
          /\ last_op' = "get"
          /\ last_key' = key
          /\ ret' = 0
          /\ got' = r.ptr
          /\ alloc_failed' = r.failed
          /\ alloc_calls' = Calls(0, r)
          /\ resized' = r.resized
          /\ free_key_arg' = r.free_key_arg
          /\ free_key_calls' = r.free_key_calls
  /\ UNCHANGED <<config, hist_vars, fault>>

Get == GetCall(CallerPtrs)

\* the caller overwrites one of its key variables; a variable the table
\* holds a borrowed pointer to (copy_elements false) is left alone, as a
\* stored key's hash and equality must not change under the table
CallerWrite ==
  /\ ~fault
  /\ \E p \in CallerPtrs, b \in Keys :
       /\ config.copy_elements \/ p \notin StoredKeys
       /\ mem[p] # b
       /\ mem' = [mem EXCEPT ![p] = b]
  /\ last_op' = "write"
  /\ last_key' = NULL
  /\ ret' = 0
  /\ got' = NULL
  /\ alloc_failed' = FALSE
  /\ alloc_calls' = 0
  /\ resized' = FALSE
  /\ free_key_arg' = NULL
  /\ free_key_calls' = 0
  /\ UNCHANGED <<config, table_vars, heap_vars, hist_vars, fault>>

Next == New \/ Set \/ Get \/ CallerWrite

Spec == Init /\ [][Next]_vars

\* --------------------------------------------- a table with no destructor
\* the same caller, constructing the table with free_key NULL

InitNoDestructor == InitOf(NoDestructorConfigs, {[p \in CallerPtrs |-> 0]})

SpecNoDestructor == InitNoDestructor /\ [][Next]_vars

\* ------------------------------------------------- the growth scenario
\* A table of sizes 4, 8, 16 and load factor 0.75 into which the caller
\* inserts four pairwise distinct keys, one after the other, no allocation
\* failing, under every assignment of the hashes below to the four keys.

ScenarioKeys == 0 .. 3
ScenarioPtrs == {200 + k : k \in ScenarioKeys}
ScenarioHashes == {0, 1, 4, 5}

ScenarioConfigs ==
  [sizes : {<<4, 8, 16>>}, load_factor : {[num |-> 3, den |-> 4]},
   copy_elements : BOOLEAN, get_hash : [ScenarioKeys -> ScenarioHashes],
   free_key : {TRUE}]

InitScenario == InitOf(ScenarioConfigs, {[p \in ScenarioPtrs |-> p - 200]})

\* the next key that has not been inserted yet is set
ScenarioSet ==
  \E k \in ScenarioKeys :
    /\ num_elements = k
    /\ SetCall({200 + k}, {3}, Cardinality(ScenarioKeys))

ScenarioGet == GetCall(ScenarioPtrs)

NextScenario == New \/ ScenarioSet \/ ScenarioGet

SpecScenario == InitScenario /\ [][NextScenario]_vars

\* ---------------------------------------------------- reading the structure

\* the nodes of the chain that starts at cur_node, in chain order (at most
\* fuel of them)
RECURSIVE chain_from(_, _)
chain_from(cur_node, fuel) ==
  IF cur_node = NULL \/ fuel = 0
  THEN <<>>
  ELSE <<cur_node>> \o chain_from(nodes[cur_node].next, fuel - 1)

\* the same walk over the node records nd
RECURSIVE chain_of(_, _, _)
chain_of(nd, cur_node, fuel) ==
  IF cur_node = NULL \/ fuel = 0
  THEN <<>>
  ELSE <<cur_node>> \o chain_of(nd, nd[cur_node].next, fuel - 1)

\* the chain of bucket i
Chain(i) == chain_from(buckets[i], Cardinality(DOMAIN nodes) + 1)

ChainSet(i) == {Chain(i)[j] : j \in 1 .. Len(Chain(i))}

\* every node some bucket's chain reaches
Reachable == UNION {ChainSet(i) : i \in DOMAIN buckets}

RECURSIVE sum_lengths(_)
sum_lengths(S) ==
  IF S = {} THEN 0
  ELSE LET i == CHOOSE x \in S : TRUE
       IN Len(Chain(i)) + sum_lengths(S \ {i})

\* how many nodes walking every bucket visits
WalkCount == sum_lengths(DOMAIN buckets)

\* what hashmap_get returns for a key with bytes k, in the current state
GetOf(k) == hashmap_get([Cur(0) EXCEPT !.mem = (Probe :> k) @@ mem], Probe).ptr

\* every node sits in the bucket its cached hash selects
WellPlaced ==
  \A i \in DOMAIN buckets : \A n \in ChainSet(i) :
    nodes[n].hash % sizes[cur_size + 1] = i

\* ------------------------------------------------------------------ claims

\* C1 (round trip): right after a hashmap_set(k) that returned 0,
\* hashmap_get(k) returns a stored key, not NULL, that compares equal to k.
C1_RoundTrip ==
  (last_op = "set" /\ ret = 0) =>
    LET g == hashmap_get(Cur(0), last_key).ptr
    IN /\ g # NULL
       /\ g \in StoredKeys
       /\ compare(Cur(0), g, last_key) = 0

\* C1 witness: a successful set in copy mode that resized a table already
\* holding nodes.
C1_Witness ==
  /\ last_op = "set" /\ ret = 0 /\ resized /\ copy_elements
  /\ num_elements >= 2

\* C2 (keys are never lost): a key for which some hashmap_set has returned 0
\* is found by hashmap_get in every later state, with equal bytes.
C2_KeysNeverLost ==
  hashmap # NULL =>
    \A k \in set_keys : GetOf(k) # NULL /\ mem[GetOf(k)] = k

\* C2 witness: both keys were set, the table has grown twice, and the last
\* set failed.
C2_Witness ==
  /\ set_keys = Keys /\ cur_size = 2
  /\ last_op = "set" /\ ret = -1

\* C3 (growth trigger), as claimed: a set whose allocations all succeed
\* resizes iff at its entry num_elements / sizes[cur_size] > load_factor and
\* cur_size < num_sizes - 1.
C3_GrowthTriggerClaimed ==
  [][(last_op' = "set" /\ ~alloc_failed') =>
       (resized' <=>
          /\ num_elements * load_factor.den > load_factor.num * sizes[cur_size + 1]
          /\ cur_size < num_sizes - 1)]_vars

\* C4 (growth bound): cur_size <= num_sizes - 1 and the bucket array has
\* exactly sizes[cur_size] slots.
C4_GrowthBound ==
  hashmap # NULL =>
    /\ cur_size <= num_sizes - 1
    /\ DOMAIN buckets = 0 .. (sizes[cur_size + 1] - 1)

\* C4 witness: a successful set at the last size, which did not resize.
C4_Witness ==
  /\ hashmap # NULL /\ cur_size = num_sizes - 1
  /\ last_op = "set" /\ ret = 0 /\ ~resized /\ num_elements >= 2

\* C5 (count consistency): num_elements is the number of nodes that walking
\* every bucket of the current array visits.
C5_CountConsistency ==
  hashmap # NULL => num_elements = WalkCount

\* C5 witness: an in-place update in a table that holds a tail-collision
\* duplicate.
C5_Witness ==
  /\ last_op = "set" /\ ret = 0 /\ free_key_arg # NULL
  /\ num_elements = 3

\* C6 (bucket placement): every node of bucket i has hash % sizes[cur_size]
\* = i, and its hash is get_hash of the key it stores now.
C6_BucketPlacement ==
  hashmap # NULL =>
    /\ WellPlaced
    /\ \A n \in Reachable : nodes[n].hash = get_hash[mem[nodes[n].key]]

\* C6 witness: a resize has just spread three nodes over two buckets.
C6_Witness ==
  /\ last_op = "set" /\ resized /\ num_elements = 3
  /\ \E i, j \in DOMAIN buckets : i # j /\ buckets[i] # NULL /\ buckets[j] # NULL

\* C7 (failure atomicity of set): a set that returns -1 had an allocation
\* fail and leaves num_elements, the nodes' keys and hashes and the key bytes
\* as they were.  If it installed no new bucket array, cur_size, the bucket
\* array, every chain and the heap are exactly as before; if the failing
\* allocation was the resize's, no further allocation (no insertion) was
\* attempted.  If it had already resized, cur_size is one higher and the same
\* nodes are re-linked into the buckets their hashes select.
C7_FailureAtomicity ==
  [][(last_op' = "set" /\ ret' = -1) =>
       /\ alloc_failed'
       /\ num_elements' = num_elements
       /\ sizes' = sizes /\ num_sizes' = num_sizes
       /\ DOMAIN nodes' = DOMAIN nodes
       /\ \A n \in DOMAIN nodes :
            nodes'[n].key = nodes[n].key /\ nodes'[n].hash = nodes[n].hash
       /\ mem' = mem
       /\ IF resized'
          THEN /\ cur_size' = cur_size + 1
               /\ Reachable' = Reachable
               /\ WellPlaced'
               /\ WalkCount' = num_elements
          ELSE /\ cur_size' = cur_size
               /\ bucket_array' = bucket_array
               /\ buckets' = buckets
               /\ nodes' = nodes
               /\ num_elements_grow' = num_elements_grow
               /\ live' = live
       /\ (num_elements = num_elements_grow /\ cur_size < num_sizes - 1
             /\ ~resized') => alloc_calls' = 1]_vars

\* C7 witness: a set failed after its resize had re-linked two or more nodes.
C7_Witness ==
  /\ last_op = "set" /\ ret = -1 /\ resized
  /\ num_elements >= 2

\* C8 (construction is all-or-nothing): hashmap_new makes three allocations;
\* if one fails it returns NULL with every earlier block released, and if
\* none fails the table has cur_size 0, num_elements 0, sizes[0] buckets,
\* all empty, and owns exactly its record, its sizes copy and its array.
C8_ConstructionAllOrNothing ==
  last_op = "new" =>
    IF alloc_failed
    THEN /\ ret = -1 /\ got = NULL /\ hashmap = NULL
         /\ alloc_calls \in 1 .. 3
         /\ live = {} /\ ~double_free
    ELSE /\ ret = 0 /\ got = hashmap /\ hashmap # NULL
         /\ alloc_calls = 3
         /\ cur_size = 0 /\ num_elements = 0
         /\ sizes = config.sizes
         /\ DOMAIN buckets = 0 .. (sizes[1] - 1)
         /\ \A i \in DOMAIN buckets : buckets[i] = NULL
         /\ live = {hashmap, sizes_addr, bucket_array}
         /\ Cardinality(live) = 3 /\ ~double_free

\* C8 witness: the third allocation (the bucket array) failed.
C8_Witness ==
  last_op = "new" /\ alloc_failed /\ alloc_calls = 3

\* C9 (no leak, still usable): between operations the live blocks are
\* exactly the table record, the sizes copy, the current bucket array, one
\* node per chain entry and, in copy mode, one key copy per chain entry;
\* nothing was freed twice; a set fails only when an allocation failed; and
\* every key set so far is still found.
C9_NoLeak ==
  /\ ~double_free
  /\ hashmap = NULL => live = {}
  /\ hashmap # NULL =>
       /\ Reachable = DOMAIN nodes
       /\ live = {hashmap, sizes_addr, bucket_array} \cup DOMAIN nodes
                   \cup (IF copy_elements THEN StoredKeys ELSE {})
       /\ Cardinality(live) =
            3 + num_elements + (IF copy_elements THEN num_elements ELSE 0)
       /\ (last_op = "set" /\ ~alloc_failed) => ret = 0
       /\ \A k \in set_keys : GetOf(k) # NULL

\* C9 witness: in copy mode a set resized, copied the key and then failed to
\* allocate the node.
C9_Witness ==
  /\ last_op = "set" /\ ret = -1 /\ copy_elements /\ resized
  /\ alloc_calls = 3 /\ num_elements >= 1

\* C10 (ownership mode): in copy mode every key hashmap_get can return is a
\* live block of the table's allocator, not a caller pointer, and holds the
\* bytes the caller's key had when it was set; in non-copy mode every key
\* hashmap_get can return is a pointer passed to a set that returned 0, and
\* no block of the allocator is a key.
C10_OwnershipMode ==
  hashmap # NULL =>
    /\ \A k \in Keys :
         LET g == GetOf(k)
         IN g # NULL =>
              IF copy_elements
              THEN g \in live /\ g \notin CallerPtrs /\ mem[g] = copied[g]
              ELSE g \in set_ptrs
    /\ (last_op = "get" /\ got # NULL) =>
         IF copy_elements
         THEN got \in live /\ got \notin CallerPtrs /\ mem[got] = copied[got]
         ELSE got \in set_ptrs
    /\ ~copy_elements =>
         /\ live = {hashmap, sizes_addr, bucket_array} \cup DOMAIN nodes
         /\ (last_op = "set" => alloc_calls <= 2)

\* C10 witness: in copy mode the caller has overwritten its variables and
\* the table still holds a key whose bytes no caller variable holds.
C10_Witness ==
  /\ hashmap # NULL /\ copy_elements /\ last_op = "write"
  /\ \E k \in Keys : GetOf(k) # NULL /\ \A p \in CallerPtrs : mem[p] # k

\* a step that is a successful hashmap_set which added no node: an in-place
\* update
InPlaceUpdate ==
  last_op' = "set" /\ ~fault' /\ ret' = 0 /\ DOMAIN nodes' = DOMAIN nodes

\* C11: destructor discipline.  Every step calls free_key exactly once if it
\* is an in-place update and not at all otherwise (an append, a duplicate
\* append, a resize, a get, a failed set); the one call is handed the key
\* the updated node held before the step, and that key is stored in no
\* node after the step.
C11_DestructorDiscipline ==
  [][/\ free_key_calls' = IF InPlaceUpdate THEN 1 ELSE 0
     /\ InPlaceUpdate =>
          /\ \E n \in DOMAIN nodes :
               /\ nodes[n].key = free_key_arg'
               /\ nodes' = [nodes EXCEPT ![n].key = nodes'[n].key]
          /\ free_key_arg' \notin StoredKeys']_vars

\* what the code does keep of C11: one call per in-place update and none on
\* any other step, the argument being the key the updated node held
C11_CallsOnlyOnUpdate ==
  [][/\ free_key_calls' = IF InPlaceUpdate THEN 1 ELSE 0
     /\ InPlaceUpdate =>
          \E n \in DOMAIN nodes :
            /\ nodes[n].key = free_key_arg'
            /\ nodes' = [nodes EXCEPT ![n].key = nodes'[n].key]]_vars

\* C12: hashmap_get is read-only.  A get step, for a key found or not, calls
\* neither alloc nor free nor free_key, does not resize, and leaves the
\* table record, the bucket array, every chain, every node's key and hash,
\* the heap and the key bytes unchanged.
C12_GetReadOnly ==
  [][last_op' = "get" =>
       /\ UNCHANGED <<table_vars, heap_vars, mem>>
       /\ alloc_calls' = 0
       /\ ~alloc_failed'
       /\ free_key_calls' = 0
       /\ free_key_arg' = NULL
       /\ ~resized']_vars

\* a get found its key in a table that the next set would grow
C12_Witness ==
  /\ last_op = "get"
  /\ got # NULL
  /\ num_elements >= 1
  /\ num_elements = num_elements_grow
  /\ cur_size < num_sizes - 1

\* C13: the growth scenario.  With sizes 4, 8, 16 and load factor 0.75,
\* while at most three distinct keys are in, the table is at size index 0
\* and no set has resized; the set of the fourth distinct key resizes, and
\* from then on the size index is 1, the array has 8 buckets, the count is
\* 4, the fourth key's node is the tail of the chain its hash selects among
\* 8 buckets, and get finds each of the four keys; under every assignment
\* of hashes to the keys.
C13_GrowthScenario ==
  hashmap # NULL =>
    /\ num_elements <= 3 =>
         /\ cur_size = 0
         /\ DOMAIN buckets = 0 .. 3
         /\ last_op = "set" => ~resized
         /\ \A k \in ScenarioKeys :
              (GetOf(k) # NULL) <=> (k < num_elements)
    /\ num_elements > 3 =>
         /\ num_elements = 4
         /\ cur_size = 1
         /\ DOMAIN buckets = 0 .. 7
         /\ WellPlaced
         /\ last_op = "set" => resized /\ ret = 0
         /\ \A n \in Reachable :
              mem[nodes[n].key] = 3 => nodes[n].next = NULL
         /\ \A k \in ScenarioKeys :
              GetOf(k) # NULL /\ mem[GetOf(k)] = k

\* the fourth key has just been set, and the resize split a chain of size
\* 4: two of the keys shared a bucket of the 4 and sit in different ones
\* of the 8
C13_Witness ==
  /\ last_op = "set" /\ ret = 0 /\ resized /\ num_elements = 4
  /\ \E m, n \in Reachable :
       /\ nodes[m].hash % 4 = nodes[n].hash % 4
       /\ nodes[m].hash % 8 # nodes[n].hash % 8

\* C14: the key destructor is optional.  In a table constructed with
\* free_key NULL every hashmap_set completes without a fault, the set that
\* replaces an equal key in place at a non-tail position included.
C14_DestructorOptional == ~fault

\* a step that is a hashmap_set which returned 0
SetDone == last_op' = "set" /\ ~fault' /\ ret' = 0

\* on such a step: the index of the bucket the key was added to, and that
\* bucket's chain after the step
TargetBucket == get_hash[mem[last_key']] % sizes'[cur_size' + 1]
TargetAfter ==
  chain_of(nodes', buckets'[TargetBucket], Cardinality(DOMAIN nodes') + 1)

\* what hashmap_get returns for the key variable key after the step
GetAfter(key) ==
  hashmap_get([mem |-> mem', get_hash |-> get_hash', sizes |-> sizes',
               cur_size |-> cur_size', buckets |-> buckets',
               nodes |-> nodes', ptr |-> NULL], key).ptr

\* the part of the chain c of after the step that was there before it
TargetBefore(c) == SelectSeq(c, LAMBDA n : n \in DOMAIN nodes)

\* the positions of the chain c of before the step, its last excepted,
\* whose node held a key with bytes k
UpdateCandidates(c, k) ==
  {j \in 1 .. (Len(c) - 1) : mem[nodes[c[j]].key] = k}

\* the first position of the chain c whose node holds, after the step, a
\* key with bytes k
FirstEqualAfter(c, k) ==
  CHOOSE j \in 1 .. Len(c) :
    /\ mem'[nodes'[c[j]].key] = k
    /\ \A i \in 1 .. (j - 1) : mem'[nodes'[c[i]].key] # k

\* C15: the insert-or-update rule.  A hashmap_set that returns 0 and finds
\* an equal key in a node of the target chain other than its last replaces
\* the key of the first such node, allocates no node and leaves
\* num_elements; otherwise it appends one new node after the chain's last
\* node and adds one to num_elements, also when the last node's key is
\* equal.  Every other node keeps its key, and a get of the key returns the
\* key of the first node of the chain that holds an equal one.
C15_InsertOrUpdate ==
  [][SetDone =>
       \E k \in Keys :
         /\ k = mem[last_key']
         /\ LET after == TargetAfter
                before == TargetBefore(after)
                cands == UpdateCandidates(before, k)
            IN /\ IF cands # {}
                  THEN LET n == before[CHOOSE j \in cands :
                                         \A i \in cands : j <= i]
                       IN /\ DOMAIN nodes' = DOMAIN nodes
                          /\ num_elements' = num_elements
                          /\ after = before
                          /\ mem'[nodes'[n].key] = k
                          /\ ~copy_elements => nodes'[n].key = last_key'
                          /\ copy_elements => nodes'[n].key # nodes[n].key
                          /\ \A m \in DOMAIN nodes \ {n} :
                               nodes'[m].key = nodes[m].key
                  ELSE /\ Cardinality(DOMAIN nodes' \ DOMAIN nodes) = 1
                       /\ num_elements' = num_elements + 1
                       /\ Len(after) = Len(before) + 1
                       /\ after[Len(after)] \notin DOMAIN nodes
                       /\ mem'[nodes'[after[Len(after)]].key] = k
                       /\ \A m \in DOMAIN nodes : nodes'[m].key = nodes[m].key
               /\ GetAfter(last_key') = nodes'[after[FirstEqualAfter(after, k)]].key]_vars

\* a set of a key equal to the key of the only node of its chain has
\* appended a second node: two nodes with equal keys, num_elements 2, and
\* get returns the first node's key
C15_Witness ==
  /\ last_op = "set" /\ ret = 0 /\ num_elements = 2
  /\ \E i \in DOMAIN buckets :
       /\ Len(Chain(i)) = 2
       /\ mem[nodes[Chain(i)[1]].key] = mem[nodes[Chain(i)[2]].key]
       /\ nodes[Chain(i)[1]].key # nodes[Chain(i)[2]].key
       /\ GetOf(mem[last_key]) = nodes[Chain(i)[1]].key

\* C16 as claimed: once a set has appended a node n after a node o holding
\* an equal key, a get of an equal key returns the key o holds, and no get
\* returns the key handle the duplicating set stored in n.
C16_ShadowingClaimed ==
  \A n \in DOMAIN dups :
    /\ GetOf(mem[dups[n].handle]) = nodes[dups[n].older].key
    /\ \A k \in Keys : GetOf(k) # dups[n].handle

\* C16, amended: once a set has appended a node n after a node o holding an
\* equal key, in every later state n still holds the handle that set
\* stored, o comes before n in the same chain, and a get of an equal key
\* returns the key o holds at that time; a get returns n's handle only if
\* o holds that very handle too, which never happens when the table copies
\* its keys.
C16_Shadowing ==
  \A n \in DOMAIN dups :
    LET o == dups[n].older
        handle == dups[n].handle
    IN /\ nodes[n].key = handle
       /\ mem[nodes[o].key] = mem[handle]
       /\ \E i \in DOMAIN buckets : \E a, b \in 1 .. Len(Chain(i)) :
            a < b /\ Chain(i)[a] = o /\ Chain(i)[b] = n
       /\ GetOf(mem[handle]) = nodes[o].key
       /\ \A k \in Keys : GetOf(k) = handle => nodes[o].key = handle
       /\ copy_elements => \A k \in Keys : GetOf(k) # handle

\* a get returned the older entry's key in copy mode, that key being a
\* copy made after the duplicate's: the older entry was updated in place
\* after the duplicating set
C16_Witness ==
  /\ last_op = "get" /\ got # NULL /\ copy_elements
  /\ \E n \in DOMAIN dups :
       /\ got = nodes[dups[n].older].key
       /\ got > dups[n].handle

\* a step that is a hashmap_set whose hashmap_resize succeeded (the
\* insertion after it may have succeeded or failed)
ResizeDone == last_op' = "set" /\ ~fault' /\ resized'

\* the chain of bucket i after the step
ChainAfter(i) ==
  chain_of(nodes', buckets'[i], Cardinality(DOMAIN nodes') + 1)

\* the position of node n in the chain c
PosIn(c, n) == CHOOSE j \in 1 .. Len(c) : c[j] = n

\* C17: a successful resize is a pure re-link.  cur_size advances by one and
\* the new array has sizes[cur_size] slots; every node of before is still
\* there with the hash it cached, and, but for the one node the insertion
\* that follows may update, with its key; each node is in exactly one
\* chain of the new array, the one its cached hash selects, and the chains
\* end (walking them visits num_elements nodes); nodes that shared a chain
\* and share one again keep their order; the old array is freed once (its
\* address is live afterwards only if the insertion that follows was given
\* it for its new node or key copy) and no node is.  When the insertion that follows fails, nothing else has
\* changed: the heap differs by the two arrays only.
C17_ResizeRelink ==
  [][ResizeDone =>
       /\ cur_size' = cur_size + 1
       /\ sizes' = sizes
       /\ DOMAIN buckets' = 0 .. (sizes[cur_size' + 1] - 1)
       /\ bucket_array' # bucket_array
       /\ bucket_array \in live' =>
            bucket_array \in (DOMAIN nodes' \ DOMAIN nodes)
                                \cup (DOMAIN mem' \ DOMAIN mem)
       /\ bucket_array' \in live'
       /\ ~double_free'
       /\ DOMAIN nodes \subseteq DOMAIN nodes'
       /\ DOMAIN nodes \subseteq live'
       /\ \A n \in DOMAIN nodes : nodes'[n].hash = nodes[n].hash
       /\ Cardinality({n \in DOMAIN nodes : nodes'[n].key # nodes[n].key}) <= 1
       /\ \A n \in Reachable :
            \E i \in DOMAIN buckets' :
              /\ i = nodes[n].hash % sizes[cur_size' + 1]
              /\ Cardinality({j \in 1 .. Len(ChainAfter(i)) :
                                ChainAfter(i)[j] = n}) = 1
              /\ \A i2 \in DOMAIN buckets' \ {i} :
                   \A j \in 1 .. Len(ChainAfter(i2)) : ChainAfter(i2)[j] # n
       /\ \A i \in DOMAIN buckets' :
            /\ Len(ChainAfter(i)) <= num_elements'
            /\ Len(ChainAfter(i)) > 0 =>
                 nodes'[ChainAfter(i)[Len(ChainAfter(i))]].next = NULL
       /\ WalkCount' = num_elements'
       /\ \A i \in DOMAIN buckets : \A a, b \in 1 .. Len(Chain(i)) :
            (a < b /\ nodes[Chain(i)[a]].hash % sizes[cur_size' + 1]
                        = nodes[Chain(i)[b]].hash % sizes[cur_size' + 1]) =>
              LET c == ChainAfter(nodes[Chain(i)[a]].hash
                                    % sizes[cur_size' + 1])
              IN PosIn(c, Chain(i)[a]) < PosIn(c, Chain(i)[b])
       /\ ret' # 0 =>
            /\ DOMAIN nodes' = DOMAIN nodes
            /\ \A n \in DOMAIN nodes : nodes'[n].key = nodes[n].key
            /\ num_elements' = num_elements
            /\ mem' = mem
            /\ free_key_calls' = 0
            /\ live' = (live \ {bucket_array}) \cup {bucket_array'}]_vars

\* a set has resized a table whose three nodes, two of them there before
\* the resize, all sit in one chain of the new array
C17_Witness ==
  /\ last_op = "set" /\ resized /\ ret = 0 /\ num_elements = 3
  /\ \E i \in DOMAIN buckets : Len(Chain(i)) = 3

\* C18: growth is monotone and stepwise.  Once the table is constructed no
\* step lowers cur_size or raises it by more than one, and none changes the
\* sizes copy.  A hashmap_set entered at the last size leaves cur_size and
\* the bucket array as they are and allocates at most the key copy and the
\* node; it returns 0 unless one of those allocations fails, in which case
\* the table is unchanged.
C18_StepwiseGrowth ==
  [][hashmap # NULL =>
       /\ cur_size' >= cur_size
       /\ cur_size' <= cur_size + 1
       /\ sizes' = sizes
       /\ num_sizes' = num_sizes
       /\ sizes_addr' = sizes_addr
       /\ (cur_size = num_sizes - 1 /\ last_op' = "set" /\ ~fault') =>
            /\ cur_size' = cur_size
            /\ ~resized'
            /\ bucket_array' = bucket_array
            /\ DOMAIN buckets' = DOMAIN buckets
            /\ num_elements_grow' = num_elements_grow
            /\ alloc_calls' <= (IF copy_elements THEN 2 ELSE 1)
            /\ (ret' = 0) <=> ~alloc_failed'
            /\ ret' = 0 => GetAfter(last_key') # NULL
            /\ ret' # 0 => UNCHANGED <<table_vars, live, mem>>]_vars

\* a set entered at the last size with num_elements at the growth threshold
\* has appended a node without resizing
C18_Witness ==
  /\ last_op = "set" /\ ret = 0 /\ ~resized /\ free_key_calls = 0
  /\ cur_size = num_sizes - 1
  /\ num_elements = num_elements_grow + 1

\* the nodes that hold a key with bytes k
EqualNodes(k) == {n \in DOMAIN nodes : mem[nodes[n].key] = k}

\* C19: at most two nodes of the table hold a key equal to any given key,
\* and two that do are in the same chain.
C19_AtMostTwoEqual ==
  \A k \in Keys :
    /\ Cardinality(EqualNodes(k)) <= 2
    /\ \A a, b \in EqualNodes(k) :
         \E i \in DOMAIN buckets : {a, b} \subseteq ChainSet(i)

\* with two nodes holding equal keys in a table that has been resized, a
\* further set of an equal key has updated the head-ward one in place
C19_Witness ==
  /\ last_op = "set" /\ ret = 0 /\ free_key_calls = 1
  /\ cur_size > 0
  /\ Cardinality(EqualNodes(mem[last_key])) = 2

\* C20: the implicit load bound.  In every state of a constructed table that
\* is not at its last size (any of which a hashmap_set may be entered in),
\* num_elements is at most num_elements_grow, the threshold
\* floor(sizes[cur_size] * load_factor) of the current size, so the
\* equality test of hashmap_set cannot be stepped over.
C20_LoadBound ==
  (hashmap # NULL /\ cur_size < num_sizes - 1) =>
    /\ num_elements_grow = grow_threshold(sizes[cur_size + 1], load_factor)
    /\ num_elements <= num_elements_grow

====
